---- MODULE Spec2Model ----
(***************************************************************************)
(* Model of pbkdf-encrypt-core: PBKDF2 key derivation (src/hasher.rs),     *)
(* cipher-context construction and in-place AEAD encryption                *)
(* (src/encrypter.rs).                                                     *)
(*                                                                         *)
(* Strings are sequences of bytes (their UTF-8 representation); a byte is  *)
(* an integer in 0..255.  The cryptographic primitives of the dependencies *)
(* (HMAC-SHA512, AES-256-GCM-SIV) are replaced by small keyed mixing       *)
(* functions with the same interface and the same output sizes; the        *)
(* algorithms built around them (PBKDF2 block iteration, tag append, hex   *)
(* encoding, nonce extraction) are modelled step by step.                  *)
(***************************************************************************)
EXTENDS Integers, Sequences, FiniteSets, TLC

VARIABLES hasher_key, pbkdf_key, hist, config, enc, buffer, ncalls,
          aead, op, arg, ret, panicked

vars == <<hasher_key, pbkdf_key, hist, config, enc, buffer, ncalls,
          aead, op, arg, ret, panicked>>

(* ---------------------------- program constants ----------------------- *)
KEY_BUFF_SIZE == 20
PRF_OUTPUT_SIZE == 64
NONCE_SIZE == 12
TAG_SIZE == 16
KEY_SIZE == 32
PBKDF_ROUNDS == 2

(* ------------------------------- bounds ------------------------------- *)
MaxRounds == 2
MaxCalls == 3
MaxEncrypts == 3

(* ------------------------------- inputs ------------------------------- *)
StrPassword == <<112, 97, 115, 115, 119, 111, 114, 100>>
StrSalt == <<115, 97, 108, 116>>
StrSecretNukeCodes ==
    <<115, 101, 99, 114, 101, 116, 32, 110, 117, 107, 101, 32, 99, 111, 100, 101, 115>>
StrEAcute == <<195, 169>>
StrHex11 == <<48, 49, 50, 51, 52, 53, 54, 55, 56, 57, 97>>
StrHex12 == <<48, 49, 50, 51, 52, 53, 54, 55, 56, 57, 97, 98>>
StrText13 == <<110, 111, 116, 32, 104, 101, 120, 32, 97, 116, 32, 97, 108>>

Passwords == {<<>>, StrPassword}
Salts == {<<>>, StrSalt}
Rounds == 1..MaxRounds
PlainTexts == {<<>>, StrEAcute, StrSecretNukeCodes}
HashKeys == {<<>>, StrHex11, StrHex12, StrText13}
DecryptInputs == {StrHex12}
InitBufs == {[i \in 1..KEY_BUFF_SIZE |-> 0], [i \in 1..KEY_BUFF_SIZE |-> 255]}
Providers == {1, 2}
Keys == {[i \in 1..KEY_SIZE |-> (k * 37 + i) % 256] : k \in {1, 2}}

(* ----------------------------- byte helpers --------------------------- *)
RECURSIVE BitXor(_, _)
BitXor(a, b) ==
    IF a = 0 THEN b
    ELSE IF b = 0 THEN a
    ELSE (((a % 2) + (b % 2)) % 2) + 2 * BitXor(a \div 2, b \div 2)

(* a position-sensitive checksum of a byte string, in 0..65520 *)
RECURSIVE MixRange(_, _, _)
MixRange(s, lo, hi) ==
    IF lo > hi THEN 0
    ELSE IF lo = hi THEN ((s[lo] + 1) * ((2 * lo) + 1)) % 65521
    ELSE (MixRange(s, lo, (lo + hi) \div 2)
          + MixRange(s, ((lo + hi) \div 2) + 1, hi)) % 65521

Mix(s) == (MixRange(s, 1, Len(s)) + (Len(s) * 257) + 7) % 65521

(* the elements of a function over 1..n, as an explicit tuple *)
Bytes(f) == SubSeq(f, 1, Len(f))

(* xor(res, salt): res[i] ^= salt[i] over the length of res *)
xor(res, block) == Bytes([i \in 1..Len(res) |-> BitXor(res[i], block[i])])

to_be_bytes(n) ==
    <<(n \div 16777216) % 256, (n \div 65536) % 256, (n \div 256) % 256, n % 256>>

(* hex::encode: two lowercase hex digits per byte *)
HexDigit(d) == IF d < 10 THEN 48 + d ELSE 87 + d

hex_encode(bytes) ==
    Bytes([i \in 1..(2 * Len(bytes)) |->
        IF i % 2 = 1 THEN HexDigit(bytes[(i + 1) \div 2] \div 16)
                     ELSE HexDigit(bytes[i \div 2] % 16)])

(* ----------------- key derivation (src/hasher.rs) --------------------- *)
(* Hmac<H>: keyed PRF with a PRF_OUTPUT_SIZE-byte output *)
HmacOutput(seed) ==
    Bytes([j \in 1..PRF_OUTPUT_SIZE |-> ((seed * (j + 1)) + (seed \div 256) + (j * j)) % 256])

Hmac(key, msg) == HmacOutput(((Mix(key) * 251) + (Mix(msg) * 13) + Len(msg)) % 65521)

(* the loop "for _ in 1..rounds": salt = PRF(salt); chunk ^= salt *)
RECURSIVE pbkdf2_rounds(_, _, _, _)
pbkdf2_round(acc, prf_key, u, n) == pbkdf2_rounds(xor(acc, u), prf_key, u, n - 1)

pbkdf2_rounds(acc, prf_key, prev, n) ==
    IF n = 0 THEN acc
    ELSE pbkdf2_round(acc, prf_key, Hmac(prf_key, prev), n)

(* one output block: the chunk is cleared, then U_1 ^ ... ^ U_rounds *)
pbkdf2_body(i, chunk, password, salt, rounds) ==
    LET zeroed == Bytes([v \in 1..Len(chunk) |-> 0])
        u1 == Hmac(password, salt \o to_be_bytes(i + 1))
    IN  pbkdf2_rounds(xor(zeroed, u1), password, u1, rounds - 1)

(* pbkdf2::<Hmac<H>>(password, salt, rounds, res): res is filled in chunks *)
(* of PRF_OUTPUT_SIZE bytes; the result is the new content of res          *)
RECURSIVE pbkdf2_chunks(_, _, _, _, _)
pbkdf2_chunks(i, res, password, salt, rounds) ==
    IF Len(res) = 0 THEN <<>>
    ELSE LET n == IF Len(res) < PRF_OUTPUT_SIZE THEN Len(res) ELSE PRF_OUTPUT_SIZE
         IN  pbkdf2_body(i, SubSeq(res, 1, n), password, salt, rounds)
             \o pbkdf2_chunks(i + 1, SubSeq(res, n + 1, Len(res)), password, salt, rounds)

pbkdf2(password, salt, rounds, res) == pbkdf2_chunks(0, res, password, salt, rounds)

(* pbkdf2_gen derives into self.key and returns a copy of it *)
(* faulty variant: the copy is taken before the derivation *)
pbkdf2_gen_stale(password, salt, rounds) ==
    /\ hasher_key' = pbkdf2(password, salt, rounds, hasher_key)
    /\ ret' = hasher_key
    /\ pbkdf_key' = ret'

(* faulty variant: the output buffer is sized by the password *)
pbkdf2_gen_sized(password, salt, rounds) ==
    /\ hasher_key' = pbkdf2(password, salt, rounds, [i \in 1..Len(password) |-> 0])
    /\ ret' = hasher_key'
    /\ pbkdf_key' = ret'

(* HashProvider::pbkdf2_gen *)
pbkdf2_gen(password, salt, rounds) ==
    /\ hasher_key' = pbkdf2(password, salt, rounds, hasher_key)
    /\ ret' = hasher_key'
    /\ pbkdf_key' = ret'

(* a caller of pbkdf2_gen; the call and its result are appended to hist *)
Derive(password, salt, rounds) ==
    /\ ~panicked
    /\ pbkdf2_gen(password, salt, rounds)
    /\ op' = "pbkdf2_gen"
    /\ arg' = <<password, salt, rounds>>
    /\ UNCHANGED <<config, enc, buffer, ncalls, aead, panicked>>

DeriveLogged(password, salt, rounds) ==
    /\ Len(hist) < MaxCalls
    /\ Derive(password, salt, rounds)
    /\ hist' = Append(hist, [arg |-> arg', ret |-> ret'])

DeriveOnce(password, salt, rounds) ==
    /\ Derive(password, salt, rounds)
    /\ UNCHANGED hist

(* -------------- cipher context (src/encrypter.rs) --------------------- *)
(* EncrypterConfig::new: rng_key is the key drawn from OsRng; the result   *)
(* is <<config>>, or <<>> when read_exact fails ("Nonce is too short")     *)
(* faulty variant: a 12-byte hash_key is rejected *)
EncrypterConfig_new_offbyone(hash_key, rng_key) ==
    IF Len(hash_key) <= NONCE_SIZE THEN <<>>
    ELSE <<[hash_key |-> hash_key,
            cipher |-> [key |-> rng_key, nonce |-> SubSeq(hash_key, 1, NONCE_SIZE)]]>>

(* faulty variant: the nonce is read from the end of hash_key *)
EncrypterConfig_new_tail(hash_key, rng_key) ==
    IF Len(hash_key) < NONCE_SIZE THEN <<>>
    ELSE <<[hash_key |-> hash_key,
            cipher |-> [key |-> rng_key,
                        nonce |-> SubSeq(hash_key, Len(hash_key) - NONCE_SIZE + 1,
                                         Len(hash_key))]]>>

(* EncrypterConfig::new *)
EncrypterConfig_new(hash_key, rng_key) ==
    IF Len(hash_key) < NONCE_SIZE THEN <<>>
    ELSE <<[hash_key |-> hash_key,
            cipher |-> [key |-> rng_key, nonce |-> SubSeq(hash_key, 1, NONCE_SIZE)]]>>

(* Encrypter::new(config) *)
Encrypter_new(cfg) == [config |-> cfg]

(* a caller of EncrypterConfig::new; a failed expect() ends the program *)
NewConfig(hash_key) ==
    /\ ~panicked
    /\ \E rng_key \in Keys :
         LET c == EncrypterConfig_new(hash_key, rng_key)
         IN  IF c = <<>>
             THEN /\ panicked' = TRUE
                  /\ config' = config
             ELSE /\ panicked' = FALSE
                  /\ config' = c
    /\ op' = "EncrypterConfig_new"
    /\ arg' = <<hash_key>>
    /\ ret' = <<>>
    /\ UNCHANGED <<hasher_key, pbkdf_key, hist, enc, buffer, ncalls, aead>>

(* the hash keys a caller passes: arbitrary strings, or the hex of the key *)
(* it derived (tests::create_aes_config)                                   *)
NewConfigInputs ==
    HashKeys \cup (IF pbkdf_key = <<>> THEN {} ELSE {hex_encode(pbkdf_key)})

(* ---------------- AEAD buffer (crate::aes::AesVecBuffer) -------------- *)
AesVecBuffer_new == <<>>

extend_from_slice(buf, other) == buf \o other

inner(buf) == buf

(* ------------- authenticated encryption (src/encrypter.rs) ------------ *)
(* AeadInPlace::encrypt_in_place: the buffer content is replaced by its    *)
(* ciphertext and the TAG_SIZE-byte tag is appended                        *)
encrypt_in_place(key, nonce, aad, buf) ==
    LET t == ((Mix(key) * 5) + (Mix(nonce) * 3) + Mix(aad) + (Mix(buf) * 11)) % 65521
        tag == [j \in 1..TAG_SIZE |-> ((t * j) + (t \div 256) + (j * 29)) % 256]
        ct == [i \in 1..Len(buf) |-> BitXor(buf[i], ((t * 3) + (i * 7)) % 256)]
    IN  Bytes(ct) \o Bytes(tag)

(* faulty variant: the bytes are returned without hex encoding *)
ciphertext_hex_raw(buf) == inner(buf)

(* AesEncryptionProvide::ciphertext_hex *)
ciphertext_hex(buf) == hex_encode(inner(buf))

(* AesEncryptionProvide::perform_encryption on provider p *)
perform_encryption(p, plain_text, cipher) ==
    LET extended == extend_from_slice(buffer[p], plain_text)
        sealed == encrypt_in_place(cipher.key, cipher.nonce, <<>>, extended)
    IN  /\ aead' = <<[key |-> cipher.key, nonce |-> cipher.nonce,
                      aad |-> <<>>, msg |-> extended]>>
        /\ buffer' = [buffer EXCEPT ![p] = sealed]
        /\ ret' = ciphertext_hex(sealed)

(* faulty variant: the context takes a new nonce after each message *)
Encrypter_encrypt_renonce(input, p) ==
    /\ perform_encryption(p, input, enc[1].config.cipher)
    /\ enc' = <<[config |-> [enc[1].config EXCEPT !.cipher.nonce = SubSeq(ret', 1, NONCE_SIZE)]]>>

(* Encrypter::encrypt *)
Encrypter_encrypt(input, p) ==
    /\ perform_encryption(p, input, enc[1].config.cipher)
    /\ enc' = enc

(* faulty variant: the input is returned *)
Encrypter_decrypt_echo(input) == input

(* Encrypter::decrypt *)
Encrypter_decrypt(input) == <<>>

(* the number of perform_encryption calls made so far, on all providers *)
TotalCalls == ncalls[1] + ncalls[2]

Encrypt(input, p) ==
    /\ ~panicked
    /\ enc # <<>>
    /\ TotalCalls < MaxEncrypts
    /\ Encrypter_encrypt(input, p)
    /\ ncalls' = [ncalls EXCEPT ![p] = @ + 1]
    /\ op' = "encrypt"
    /\ arg' = <<input, p>>
    /\ UNCHANGED <<hasher_key, pbkdf_key, hist, config, panicked>>

Decrypt(input) ==
    /\ ~panicked
    /\ enc # <<>>
    /\ ret' = Encrypter_decrypt(input)
    /\ op' = "decrypt"
    /\ arg' = <<input>>
    /\ UNCHANGED <<hasher_key, pbkdf_key, hist, config, enc, buffer, ncalls, aead, panicked>>

(* ciphertexts a caller holds: the hex of what the providers last sealed *)
Ciphertexts == {ciphertext_hex(buffer[p]) : p \in Providers}

(* ---------------------------- specifications -------------------------- *)
(* Spec: the state after the construction sequence of                      *)
(* encryptable::test_encrypter (derive, hex, config, Encrypter, fresh      *)
(* providers), then any sequence of encrypt and decrypt calls              *)
Init ==
    \E password \in Passwords, salt \in Salts, rng_key \in Keys, buf \in InitBufs :
        LET key == pbkdf2(password, salt, PBKDF_ROUNDS, buf)
        IN  /\ hasher_key = key
            /\ pbkdf_key = key
            /\ hist = <<>>
            /\ config = <<>>
            /\ enc = <<Encrypter_new(EncrypterConfig_new(hex_encode(key), rng_key)[1])>>
            /\ buffer = [p \in Providers |-> AesVecBuffer_new]
            /\ ncalls = [p \in Providers |-> 0]
            /\ aead = <<>>
            /\ op = "new"
            /\ arg = <<password, salt, PBKDF_ROUNDS>>
            /\ ret = <<>>
            /\ panicked = FALSE

Next ==
    \/ \E input \in PlainTexts, p \in Providers : Encrypt(input, p)
    \/ \E input \in DecryptInputs \cup Ciphertexts : Decrypt(input)

Spec == Init /\ [][Next]_vars

(* the state before anything is derived or built *)
InitBare ==
    /\ hasher_key \in InitBufs
    /\ pbkdf_key = <<>>
    /\ hist = <<>>
    /\ config = <<>>
    /\ enc = <<>>
    /\ buffer = [p \in Providers |-> AesVecBuffer_new]
    /\ ncalls = [p \in Providers |-> 0]
    /\ aead = <<>>
    /\ op = "new"
    /\ arg = <<>>
    /\ ret = <<>>
    /\ panicked = FALSE

(* SpecHash: calls of pbkdf2_gen on one HashProvider *)
NextHash ==
    \E password \in Passwords, salt \in Salts, rounds \in Rounds :
        DeriveLogged(password, salt, rounds)

SpecHash == InitBare /\ [][NextHash]_vars

(* SpecCfg: key derivation followed by cipher-context construction *)
NextCfg ==
    \/ \E password \in Passwords, salt \in Salts, rounds \in Rounds :
         DeriveOnce(password, salt, rounds)
    \/ \E hash_key \in NewConfigInputs : NewConfig(hash_key)

SpecCfg == InitBare /\ [][NextCfg]_vars

(* ------------------------------- claims ------------------------------- *)
LowerHexDigits == (48..57) \cup (97..102)

ZeroBuf == [i \in 1..KEY_BUFF_SIZE |-> 0]

(* C1: every encrypt call with a plaintext of n bytes returns a hex string *)
(* of exactly 2*(n+16) characters, whatever calls were made before it.     *)
C1_CiphertextLength ==
    op = "encrypt" => Len(ret) = 2 * (Len(arg[1]) + TAG_SIZE)

(* C2: at the moment the in-place AEAD operation runs, the buffer content  *)
(* equals exactly the bytes of that call's plaintext, for every call made  *)
(* on a provider, the second and later ones included.                      *)
C2_BufferIsPlaintext ==
    op = "encrypt" => aead[1].msg = arg[1]

(* C3: EncrypterConfig::new fails, and produces no context, exactly when   *)
(* hash_key has fewer than 12 bytes; otherwise the context's nonce is the  *)
(* first 12 raw bytes of hash_key.                                         *)
C3_NonceLength ==
    /\ op = "EncrypterConfig_new" =>
         /\ panicked <=> Len(arg[1]) < NONCE_SIZE
         /\ panicked => (config = <<>> \/ config[1].hash_key # arg[1])
         /\ ~panicked =>
              /\ config # <<>>
              /\ config[1].hash_key = arg[1]
              /\ config[1].cipher.nonce = SubSeq(arg[1], 1, NONCE_SIZE)
    /\ config # <<>> =>
         /\ Len(config[1].hash_key) >= NONCE_SIZE
         /\ Len(config[1].cipher.nonce) = NONCE_SIZE
         /\ config[1].cipher.key \in Keys

C3_Witness ==
    /\ op = "EncrypterConfig_new"
    /\ Len(arg[1]) = NONCE_SIZE - 1
    /\ panicked

(* C4: pbkdf2_gen is deterministic: two calls with the same (password,     *)
(* salt, rounds) return the same bytes, whatever the key buffer held       *)
(* before and whatever calls were made in between; the result is the one   *)
(* derived into a cleared buffer.                                          *)
C4_Deterministic ==
    /\ \A i \in DOMAIN hist : \A j \in DOMAIN hist :
         hist[i].arg = hist[j].arg => hist[i].ret = hist[j].ret
    /\ op = "pbkdf2_gen" => ret = pbkdf2(arg[1], arg[2], arg[3], ZeroBuf)

C4_Witness ==
    /\ Len(hist) = 3
    /\ hist[1].arg = hist[3].arg
    /\ hist[2].arg # hist[1].arg
    /\ hist[2].ret # hist[1].ret

(* C5: the key returned by pbkdf2_gen always has KEY_BUFF_SIZE = 20 bytes, *)
(* for every password length, salt length and round count.                 *)
C5_FixedSize ==
    /\ op = "pbkdf2_gen" => Len(ret) = KEY_BUFF_SIZE /\ Len(pbkdf_key) = KEY_BUFF_SIZE
    /\ Len(hasher_key) = KEY_BUFF_SIZE
    /\ \A i \in DOMAIN hist : Len(hist[i].ret) = KEY_BUFF_SIZE

C5_Witness ==
    /\ op = "pbkdf2_gen"
    /\ arg[1] = <<>>
    /\ arg[2] = <<>>
    /\ \E i \in DOMAIN hist : Len(hist[i].arg[1]) > 0

(* C6: decrypt returns the empty string for every input and in every      *)
(* state, and never fails.                                                 *)
C6_DecryptEmpty ==
    op = "decrypt" => ret = <<>> /\ ~panicked

C6_Witness ==
    /\ op = "decrypt"
    /\ \E p \in Providers : buffer[p] # <<>> /\ arg[1] = ciphertext_hex(buffer[p])

(* C7: with the key derived from ("password", "salt", 2), a context built  *)
(* from its hex and a newly created provider, encrypting                   *)
(* "secret nuke codes" returns a non-empty hex string; the claim gives its *)
(* length as 2*(18+16) = 68, the plaintext has 17 bytes and the length is  *)
(* 2*(17+16) = 66.                                                         *)
C7_Scenario ==
    /\ op = "encrypt"
    /\ arg[1] = StrSecretNukeCodes
    /\ ncalls[arg[2]] = 1
    /\ enc[1].config.hash_key =
         hex_encode(pbkdf2(StrPassword, StrSalt, PBKDF_ROUNDS, ZeroBuf))

C7_Original ==
    C7_Scenario => ret # <<>> /\ Len(ret) = 2 * (18 + 16)

C7_EndToEnd ==
    C7_Scenario => ret # <<>> /\ Len(arg[1]) = 17 /\ Len(ret) = 2 * (17 + 16)

C10_PipelineNonce ==
    (op = "EncrypterConfig_new" /\ pbkdf_key # <<>> /\ arg[1] = hex_encode(pbkdf_key)) =>
        /\ ~panicked
        /\ Len(arg[1]) = 2 * KEY_BUFF_SIZE
        /\ config # <<>>
        /\ config[1].cipher.nonce = hex_encode(SubSeq(pbkdf_key, 1, 6))
        /\ \A i \in 1..NONCE_SIZE : config[1].cipher.nonce[i] \in LowerHexDigits

C10_Witness ==
    /\ op = "EncrypterConfig_new"
    /\ pbkdf_key # <<>>
    /\ arg[1] = hex_encode(pbkdf_key)
    /\ config # <<>>
    /\ \E i \in 1..NONCE_SIZE : config[1].cipher.nonce[i] >= 97
    /\ \E i \in 1..NONCE_SIZE : config[1].cipher.nonce[i] <= 57

====
